---------------------------- MODULE Spec2Model ----------------------------
(***************************************************************************)
(* A model of homework.py: the fitness-tracker calculation layer.          *)
(*                                                                         *)
(* Numbers.  Every Python number (int or float) is modelled as an exact    *)
(* rational <<n, d>> in lowest terms with d > 0.  The arithmetic below is  *)
(* therefore the real-number arithmetic of the formulas; the rounding of   *)
(* IEEE-754 doubles (an error of a few units in the 16th digit) is not     *)
(* modelled.  Division by zero raises ZeroDivisionError, as in Python, for *)
(* both / and //.                                                          *)
(*                                                                         *)
(* Exceptions.  A call's outcome is either [kind |-> "ok", val |-> v] or   *)
(* [kind |-> "raise", exc |-> name].  The module has no try/except, so an  *)
(* exception that leaves a call ends the program (pc = "aborted").         *)
(***************************************************************************)
EXTENDS Integers, Sequences, FiniteSets, TLC

VARIABLES training, last, pc

vars == <<training, last, pc>>

(***************************************************************************)
(* Exact rational arithmetic                                               *)
(***************************************************************************)
Abs(n) == IF n < 0 THEN -n ELSE n

RECURSIVE GCD(_, _)
GCD(a, b) == IF b = 0 THEN a ELSE GCD(b, a % b)

\* the rational n/d (d # 0) in lowest terms with a positive denominator
Sgn(n) == IF n < 0 THEN -1 ELSE 1

Reduce(n, d, g) == <<n \div g, d \div g>>

Norm(n, d) == Reduce(Sgn(d) * n, Sgn(d) * d, GCD(Abs(n), Abs(d)))

Q(n) == <<n, 1>>

QAdd(a, b) == Norm(a[1] * b[2] + b[1] * a[2], a[2] * b[2])

QSub(a, b) == Norm(a[1] * b[2] - b[1] * a[2], a[2] * b[2])

\* cross-cancelled before multiplying, so that intermediate products stay small
Cross(a, b, g1, g2) ==
    Norm((a[1] \div g1) * (b[1] \div g2), (a[2] \div g2) * (b[2] \div g1))

QMul(a, b) == Cross(a, b, GCD(Abs(a[1]), b[2]), GCD(Abs(b[1]), a[2]))

\* a / b for b # 0
QDiv(a, b) == QMul(a, Norm(b[2], b[1]))

QLess(a, b) == a[1] * b[2] < b[1] * a[2]

QIsZero(a) == a[1] = 0

QFloor(a) == Q(a[1] \div a[2])

(***************************************************************************)
(* Outcomes of a call                                                      *)
(***************************************************************************)
Ok(v) == [kind |-> "ok", val |-> v]

Raise(e) == [kind |-> "raise", exc |-> e]

IsOk(o) == o.kind = "ok"

Raises(o, e) == o.kind = "raise" /\ o.exc = e

\* mutant: a zero divisor is coerced to a zero result instead of raising
truediv_zero_on_zero(a, b) == IF QIsZero(b) THEN Ok(Q(0)) ELSE Ok(QDiv(a, b))

\* Python's a / b
truediv(a, b) == IF QIsZero(b) THEN Raise("ZeroDivisionError") ELSE Ok(QDiv(a, b))

\* Python's a // b
floordiv(a, b) ==
    IF QIsZero(b) THEN Raise("ZeroDivisionError") ELSE Ok(QFloor(QDiv(a, b)))

(***************************************************************************)
(* Class constants                                                         *)
(***************************************************************************)
Training_LEN_STEP == <<13, 20>>     \* 0.65

Swimming_LEN_STEP == <<69, 50>>     \* 1.38

M_IN_KM == 1000

MIN_IN_HOUR == 60

\* mutant: Swimming does not shadow the base class's step length
LEN_STEP_unshadowed(self) == Training_LEN_STEP

\* attribute lookup self.LEN_STEP: the class's own attribute shadows the base's
LEN_STEP(self) ==
    IF self.cls = "Swimming" THEN Swimming_LEN_STEP ELSE Training_LEN_STEP

(***************************************************************************)
(* Constructors (the __init__ that @dataclass generates: one positional    *)
(* parameter per field, base fields first; a wrong count is a TypeError)   *)
(***************************************************************************)
None == [cls |-> "None"]

Running_init(args) ==
    IF Len(args) # 3 THEN Raise("TypeError")
    ELSE Ok([cls |-> "Running", action |-> args[1], duration |-> args[2],
             weight |-> args[3]])

\* mutant: the fields weight and height are declared in the other order
SportsWalking_init_swapped(args) ==
    IF Len(args) # 4 THEN Raise("TypeError")
    ELSE Ok([cls |-> "SportsWalking", action |-> args[1], duration |-> args[2],
             weight |-> args[4], height |-> args[3]])

SportsWalking_init(args) ==
    IF Len(args) # 4 THEN Raise("TypeError")
    ELSE Ok([cls |-> "SportsWalking", action |-> args[1], duration |-> args[2],
             weight |-> args[3], height |-> args[4]])

\* mutant: surplus positional values are ignored
Swimming_init_ignores_extra(args) ==
    IF Len(args) < 5 THEN Raise("TypeError")
    ELSE Ok([cls |-> "Swimming", action |-> args[1], duration |-> args[2],
             weight |-> args[3], length_pool |-> args[4],
             count_pool |-> args[5]])

Swimming_init(args) ==
    IF Len(args) # 5 THEN Raise("TypeError")
    ELSE Ok([cls |-> "Swimming", action |-> args[1], duration |-> args[2],
             weight |-> args[3], length_pool |-> args[4],
             count_pool |-> args[5]])

(***************************************************************************)
(* Methods                                                                 *)
(***************************************************************************)
\* Training.get_distance: self.action * self.LEN_STEP / self.M_IN_KM
\* (M_IN_KM is never zero, so this division cannot raise)
get_distance(self) == QDiv(QMul(self.action, LEN_STEP(self)), Q(M_IN_KM))

\* Training.get_mean_speed: self.get_distance() / self.duration
Training_get_mean_speed(self) == truediv(get_distance(self), self.duration)

\* Swimming.get_mean_speed: length_pool * count_pool / M_IN_KM / duration
Swimming_get_mean_speed(self) ==
    truediv(QDiv(QMul(self.length_pool, self.count_pool), Q(M_IN_KM)),
            self.duration)

\* mutant: Swimming does not override get_mean_speed
get_mean_speed_base_only(self) == Training_get_mean_speed(self)

\* the method that self.get_mean_speed() resolves to
get_mean_speed(self) ==
    IF self.cls = "Swimming" THEN Swimming_get_mean_speed(self)
    ELSE Training_get_mean_speed(self)

\* the expression of Running.get_spent_calories, given the mean speed:
\* (18. * speed - 20.) * weight / M_IN_KM * duration * MIN_IN_HOUR
Running_calories(self, speed) ==
    QMul(QMul(QDiv(QMul(QSub(QMul(Q(18), speed), Q(20)), self.weight),
                   Q(M_IN_KM)),
              self.duration),
         Q(MIN_IN_HOUR))

\* mutant: the two coefficients are added instead of subtracted
Running_get_spent_calories_plus(self) ==
    IF IsOk(get_mean_speed(self))
    THEN Ok(QMul(QMul(QDiv(QMul(QAdd(QMul(Q(18), get_mean_speed(self).val),
                                     Q(20)),
                                self.weight),
                           Q(M_IN_KM)),
                      self.duration),
                 Q(MIN_IN_HOUR)))
    ELSE get_mean_speed(self)

\* mutant: a negative result is clamped to zero
Running_get_spent_calories_clamped(self) ==
    IF IsOk(get_mean_speed(self))
    THEN IF Running_calories(self, get_mean_speed(self).val)[1] < 0
         THEN Ok(Q(0))
         ELSE Ok(Running_calories(self, get_mean_speed(self).val))
    ELSE get_mean_speed(self)

\* Running.get_spent_calories; an exception in get_mean_speed propagates
Running_get_spent_calories(self) ==
    IF IsOk(get_mean_speed(self))
    THEN Ok(Running_calories(self, get_mean_speed(self).val))
    ELSE get_mean_speed(self)

\* the expression of SportsWalking.get_spent_calories, given the value of
\* speed ** 2 // height:
\* (0.035 + quotient * 0.029) * weight * duration * MIN_IN_HOUR
SportsWalking_calories(self, quotient) ==
    QMul(QMul(QMul(QAdd(<<7, 200>>, QMul(quotient, <<29, 1000>>)),
                   self.weight),
              self.duration),
         Q(MIN_IN_HOUR))

\* mutant: the height is converted from centimetres to metres first
SportsWalking_quotient_metres(self, speed) ==
    floordiv(QMul(speed, speed), QDiv(self.height, Q(100)))

\* speed ** 2 // height: ** binds tighter than // and *, which associate to
\* the left, so the floor division is applied to speed ** 2 and height alone
SportsWalking_quotient(self, speed) ==
    floordiv(QMul(speed, speed), self.height)

\* SportsWalking.get_spent_calories; an exception in get_mean_speed or in
\* the floor division propagates
SportsWalking_get_spent_calories(self) ==
    IF ~IsOk(get_mean_speed(self)) THEN get_mean_speed(self)
    ELSE IF ~IsOk(SportsWalking_quotient(self, get_mean_speed(self).val))
    THEN SportsWalking_quotient(self, get_mean_speed(self).val)
    ELSE Ok(SportsWalking_calories(self,
               SportsWalking_quotient(self, get_mean_speed(self).val).val))

\* Swimming.get_spent_calories: (speed + 1.1) * 2. * weight
Swimming_get_spent_calories(self) ==
    IF IsOk(get_mean_speed(self))
    THEN Ok(QMul(QMul(QAdd(get_mean_speed(self).val, <<11, 10>>), Q(2)),
                 self.weight))
    ELSE get_mean_speed(self)

\* the method that self.get_spent_calories() resolves to
get_spent_calories(self) ==
    CASE self.cls = "Running" -> Running_get_spent_calories(self)
      [] self.cls = "SportsWalking" -> SportsWalking_get_spent_calories(self)
      [] self.cls = "Swimming" -> Swimming_get_spent_calories(self)
      [] OTHER -> Raise("NotImplementedError")

(***************************************************************************)
(* InfoMessage                                                             *)
(***************************************************************************)
\* format(x, ".3f"): sign, integer part and three decimals of x rounded to
\* the nearest thousandth, ties to even; a negative x keeps its sign even
\* when it rounds to zero ("-0.000")
Round3(n, d) ==
    IF 2 * (n % d) > d \/ (2 * (n % d) = d /\ (n \div d) % 2 = 1)
    THEN (n \div d) + 1 ELSE n \div d

Format3f(x) ==
    [neg |-> x[1] < 0,
     int |-> Round3(Abs(x[1]) * 1000, x[2]) \div 1000,
     frac |-> Round3(Abs(x[1]) * 1000, x[2]) % 1000]

\* InfoMessage.__init__ and __post_init__
InfoMessage(training_type, duration, distance, speed, calories) ==
    [training_type |-> training_type,
     duration |-> duration,
     distance |-> distance,
     speed |-> speed,
     calories |-> calories,
     message |-> <<training_type, Format3f(duration), Format3f(distance),
                   Format3f(speed), Format3f(calories)>>]

\* Training.show_training_info: the keyword arguments are evaluated in
\* order (distance, speed, calories); the first exception propagates
show_training_info(self) ==
    IF ~IsOk(get_mean_speed(self)) THEN get_mean_speed(self)
    ELSE IF ~IsOk(get_spent_calories(self)) THEN get_spent_calories(self)
    ELSE Ok(InfoMessage(self.cls, self.duration, get_distance(self),
                        get_mean_speed(self).val,
                        get_spent_calories(self).val))

(***************************************************************************)
(* Factory                                                                 *)
(***************************************************************************)
WORKOUTS == {"SWM", "RUN", "WLK"}

\* mutant: an unknown code falls back to Running instead of raising
create_default_running(workout_type, args) ==
    CASE workout_type = "SWM" -> Swimming_init(args)
      [] workout_type = "WLK" -> SportsWalking_init(args)
      [] OTHER -> Running_init(args)

\* TrainingFactory.create
create(workout_type, args) ==
    IF workout_type \notin WORKOUTS THEN Raise("KeyError")
    ELSE CASE workout_type = "SWM" -> Swimming_init(args)
           [] workout_type = "RUN" -> Running_init(args)
           [] workout_type = "WLK" -> SportsWalking_init(args)

read_package(workout_type, data) == create(workout_type, data)

(***************************************************************************)
(* Inputs                                                                  *)
(***************************************************************************)
MaxArgs == 6

Codes == WORKOUTS \cup {"XYZ", ""}

\* the values tried at each position of the data list
PosValues(i) ==
    CASE i = 1 -> {Q(0), Q(720), Q(2000), Q(9000), Q(15000)}
      [] i = 2 -> {Q(0), Q(1), <<117, 100>>}
      [] i = 3 -> {Q(75), Q(80)}
      [] i = 4 -> {Q(180), Q(30), Q(25)}
      [] i = 5 -> {Q(40), Q(0)}
      [] OTHER -> {Q(7)}

RECURSIVE DataOfLen(_)
DataOfLen(n) ==
    IF n = 0 THEN {<<>>}
    ELSE {Append(d, v) : d \in DataOfLen(n - 1), v \in PosValues(n)}

Data == UNION {DataOfLen(n) : n \in 0..MaxArgs}

(***************************************************************************)
(* The program                                                             *)
(***************************************************************************)
NoCall == [op |-> "none"]

Init ==
    /\ training = None
    /\ last = NoCall
    /\ pc = "running"

Settle(o) == pc' = IF IsOk(o) THEN "running" ELSE "aborted"

\* training = read_package(workout_type, data)
ReadPackage ==
    /\ pc = "running"
    /\ \E workout_type \in Codes, data \in Data :
          /\ last' = [op |-> "read_package", code |-> workout_type,
                       data |-> data,
                       out |-> read_package(workout_type, data)]
          /\ training' = IF IsOk(last'.out) THEN last'.out.val ELSE training
          /\ Settle(last'.out)

CallGetDistance ==
    /\ pc = "running"
    /\ training # None
    /\ last' = [op |-> "get_distance", out |-> Ok(get_distance(training))]
    /\ Settle(last'.out)
    /\ UNCHANGED training

CallGetMeanSpeed ==
    /\ pc = "running"
    /\ training # None
    /\ last' = [op |-> "get_mean_speed", out |-> get_mean_speed(training)]
    /\ Settle(last'.out)
    /\ UNCHANGED training

CallGetSpentCalories ==
    /\ pc = "running"
    /\ training # None
    /\ last' = [op |-> "get_spent_calories", out |-> get_spent_calories(training)]
    /\ Settle(last'.out)
    /\ UNCHANGED training

\* mutant: reporting resets the workout's action counter
CallShowTrainingInfo_resetting ==
    /\ pc = "running"
    /\ training # None
    /\ last' = [op |-> "show_training_info", out |-> show_training_info(training)]
    /\ Settle(last'.out)
    /\ training' = [training EXCEPT !.action = Q(0)]

CallShowTrainingInfo ==
    /\ pc = "running"
    /\ training # None
    /\ last' = [op |-> "show_training_info", out |-> show_training_info(training)]
    /\ Settle(last'.out)
    /\ UNCHANGED training

\* main(training): prints info.get_message()
Main ==
    /\ pc = "running"
    /\ training # None
    /\ last' = [op |-> "main",
                 out |-> IF IsOk(show_training_info(training))
                         THEN Ok(show_training_info(training).val.message)
                         ELSE show_training_info(training)]
    /\ Settle(last'.out)
    /\ UNCHANGED training

Next ==
    \/ ReadPackage
    \/ CallGetDistance
    \/ CallGetMeanSpeed
    \/ CallGetSpentCalories
    \/ CallShowTrainingInfo
    \/ Main

Spec == Init /\ [][Next]_vars


(***************************************************************************)
(* Vocabulary of the properties                                            *)
(***************************************************************************)
QLeq(a, b) == ~QLess(b, a)

QPos(a) == a[1] > 0

QNeg(a) == a[1] < 0

QAbs(a) == <<Abs(a[1]), a[2]>>

\* x is y to within tol
Approx(x, y, tol) == QLeq(QAbs(QSub(x, y)), tol)

\* the variant and the number of fields the interface gives for each code
VariantOf(code) ==
    CASE code = "SWM" -> "Swimming"
      [] code = "RUN" -> "Running"
      [] code = "WLK" -> "SportsWalking"

FieldCount(code) ==
    CASE code = "SWM" -> 5
      [] code = "RUN" -> 3
      [] code = "WLK" -> 4

Built == training # None

JustRead == last.op = "read_package"

Returned(op) == last.op = op /\ IsOk(last.out)

\* the duration is positive, and so are the weight and (Walking) the height
ValidFields ==
    /\ Built
    /\ QLeq(Q(0), training.action)
    /\ QPos(training.duration)
    /\ QPos(training.weight)
    /\ training.cls = "SportsWalking" => QPos(training.height)
    /\ training.cls = "Swimming" =>
          QPos(training.length_pool) /\ QLeq(Q(0), training.count_pool)

\* the three worked examples
ExampleRunning ==
    [cls |-> "Running", action |-> Q(15000), duration |-> Q(1),
     weight |-> Q(75)]

ExampleWalking ==
    [cls |-> "SportsWalking", action |-> Q(9000), duration |-> Q(1),
     weight |-> Q(75), height |-> Q(180)]

ExampleSwimming ==
    [cls |-> "Swimming", action |-> Q(720), duration |-> Q(1),
     weight |-> Q(80), length_pool |-> Q(25), count_pool |-> Q(40)]

(***************************************************************************)
(* C1.  For a recognized code and data of the matching length the factory  *)
(* returns a workout of exactly the mapped variant whose fields are the    *)
(* data values in order, none reordered, dropped or altered.               *)
(***************************************************************************)
C1_FactoryBuildsMappedVariant ==
    (JustRead /\ last.code \in {"SWM", "RUN", "WLK"}
              /\ Len(last.data) = FieldCount(last.code)) =>
        /\ IsOk(last.out)
        /\ pc = "running"
        /\ training = last.out.val
        /\ training.cls = VariantOf(last.code)
        /\ training.action = last.data[1]
        /\ training.duration = last.data[2]
        /\ training.weight = last.data[3]
        /\ last.code = "RUN" =>
              DOMAIN training = {"cls", "action", "duration", "weight"}
        /\ last.code = "WLK" =>
              /\ training.height = last.data[4]
              /\ DOMAIN training =
                    {"cls", "action", "duration", "weight", "height"}
        /\ last.code = "SWM" =>
              /\ training.length_pool = last.data[4]
              /\ training.count_pool = last.data[5]
              /\ DOMAIN training = {"cls", "action", "duration", "weight",
                                    "length_pool", "count_pool"}

C1_Witness ==
    /\ JustRead
    /\ last.code = "SWM"
    /\ last.data = <<Q(720), Q(1), Q(80), Q(25), Q(40)>>
    /\ training = ExampleSwimming

(***************************************************************************)
(* C2.  For a code that is not SWM, RUN or WLK, whatever the data (any     *)
(* length, any values), the factory fails with the unknown-workout-type    *)
(* error (KeyError), not an argument-count error, and builds no workout.   *)
(***************************************************************************)
C2_UnknownCodeRaisesKeyError ==
    [][(last'.op = "read_package" /\ last'.code \notin {"SWM", "RUN", "WLK"}) =>
          /\ Raises(last'.out, "KeyError")
          /\ last'.out = create(last'.code, <<>>)
          /\ training' = training
          /\ pc' = "aborted"]_vars

C2_Witness ==
    /\ JustRead
    /\ last.code = "XYZ"
    /\ Len(last.data) = 3
    /\ Raises(last.out, "KeyError")
    /\ ~Built

(***************************************************************************)
(* C3.  For a recognized code, data whose length differs from the          *)
(* variant's field count (shorter or longer) fails with an argument-count  *)
(* error (TypeError); no workout is built, partially or from a prefix.     *)
(***************************************************************************)
C3_WrongArityRaisesTypeError ==
    [][(last'.op = "read_package" /\ last'.code \in {"SWM", "RUN", "WLK"}
                                  /\ Len(last'.data) # FieldCount(last'.code)) =>
          /\ Raises(last'.out, "TypeError")
          /\ training' = training
          /\ pc' = "aborted"]_vars

C3_Witness ==
    /\ JustRead
    /\ last.code = "RUN"
    /\ Len(last.data) = 4
    /\ Raises(last.out, "TypeError")
    /\ ~Built

(***************************************************************************)
(* C4.  A workout of any variant is built with duration 0 without error,   *)
(* and on it get_mean_speed, get_spent_calories and show_training_info     *)
(* (and so main) each end in ZeroDivisionError: no value is returned and   *)
(* no InfoMessage is produced.                                             *)
(***************************************************************************)
C4_ZeroDurationRaises ==
    /\ (JustRead /\ last.code \in {"SWM", "RUN", "WLK"}
                 /\ Len(last.data) = FieldCount(last.code)
                 /\ QIsZero(last.data[2])) =>
          IsOk(last.out) /\ training = last.out.val
    /\ (Built /\ QIsZero(training.duration)
              /\ last.op \in {"get_mean_speed", "get_spent_calories",
                              "show_training_info", "main"}) =>
          Raises(last.out, "ZeroDivisionError") /\ pc = "aborted"

C4_Witness ==
    /\ Built
    /\ training.cls = "Swimming"
    /\ QIsZero(training.duration)
    /\ last.op = "show_training_info"
    /\ Raises(last.out, "ZeroDivisionError")

(***************************************************************************)
(* C5.  Running(15000, 1, 75): distance 9.75, mean speed 9.75.             *)
(* As claimed: calories approximately 700.575 (C5_Original, refuted).      *)
(* As amended: calories (18*9.75-20)*75/1000*1*60 = 699.75 (C5_Amended).   *)
(***************************************************************************)
C5_Example(calories) ==
    training = ExampleRunning =>
        /\ last.op = "get_distance" => Returned("get_distance") /\ last.out.val = <<39, 4>>
        /\ last.op = "get_mean_speed" =>
              Returned("get_mean_speed") /\ last.out.val = <<39, 4>>
        /\ last.op = "get_spent_calories" =>
              /\ Returned("get_spent_calories")
              /\ Approx(last.out.val, calories, <<1, 1000>>)

C5_Original == C5_Example(<<700575, 1000>>)

C5_Amended ==
    /\ C5_Example(<<69975, 100>>)
    /\ (training = ExampleRunning /\ last.op = "get_spent_calories") =>
          last.out.val = <<2799, 4>>

C5_Witness ==
    /\ training = ExampleRunning
    /\ Returned("get_spent_calories")
    /\ last.out.val = <<2799, 4>>

(***************************************************************************)
(* C6.  Walking with duration > 0 and height > 0: calories are             *)
(* (0.035 + k * 0.029) * weight * duration * 60 where k is the floor of    *)
(* speed^2 / height (height as entered), the floor being taken before the  *)
(* multiplication by 0.029; so when speed^2 < height the result is         *)
(* 0.035 * weight * duration * 60 (157.5 for the worked example).          *)
(***************************************************************************)
MaxQuot == 40

WalkingBase(self) ==
    QMul(QMul(QMul(<<35, 1000>>, self.weight), self.duration), Q(60))

WalkingSpeed(self) ==
    QDiv(QDiv(QMul(self.action, <<65, 100>>), Q(1000)), self.duration)

\* k is the floor of x / h (h > 0): k * h <= x < (k + 1) * h
IsFloorOfQuotient(k, x, h) ==
    QLeq(QMul(Q(k), h), x) /\ QLess(x, QMul(Q(k + 1), h))

C6_WalkingCalories ==
    (Built /\ training.cls = "SportsWalking" /\ QPos(training.duration)
           /\ QPos(training.height) /\ last.op = "get_spent_calories") =>
        /\ IsOk(last.out)
        /\ \E k \in 0..MaxQuot :
              /\ IsFloorOfQuotient(k, QMul(WalkingSpeed(training),
                                           WalkingSpeed(training)),
                                   training.height)
              /\ last.out.val =
                    QMul(QMul(QMul(QAdd(<<35, 1000>>, QMul(Q(k), <<29, 1000>>)),
                                   training.weight),
                              training.duration),
                         Q(60))
        /\ QLess(QMul(WalkingSpeed(training), WalkingSpeed(training)),
                 training.height) =>
              last.out.val = WalkingBase(training)
        /\ training = ExampleWalking => last.out.val = <<315, 2>>

\* a walk fast enough for the floored term to count
C6_Witness ==
    /\ Built
    /\ training.cls = "SportsWalking"
    /\ QPos(training.duration)
    /\ Returned("get_spent_calories")
    /\ IsFloorOfQuotient(3, QMul(WalkingSpeed(training), WalkingSpeed(training)),
                         training.height)
    /\ QLess(WalkingBase(training), last.out.val)

(***************************************************************************)
(* C7.  Swimming: mean speed is length_pool * count_pool / 1000 / duration *)
(* and calories are (speed + 1.1) * 2 * weight; neither depends on the     *)
(* stroke count: a Swimming workout differing only in action has the same  *)
(* speed and calories, and a different distance.                           *)
(***************************************************************************)
SwimmingSpeed(self) ==
    QDiv(QDiv(QMul(self.length_pool, self.count_pool), Q(1000)), self.duration)

WithAction(self, a) == [self EXCEPT !.action = a]

C7_SwimmingIgnoresAction ==
    (Built /\ training.cls = "Swimming" /\ ~QIsZero(training.duration)) =>
        /\ last.op = "get_mean_speed" =>
              /\ Returned("get_mean_speed")
              /\ last.out.val = SwimmingSpeed(training)
              /\ training = ExampleSwimming => last.out.val = Q(1)
              /\ \A a \in PosValues(1) :
                    get_mean_speed(WithAction(training, a)) = last.out
        /\ last.op = "get_spent_calories" =>
              /\ Returned("get_spent_calories")
              /\ last.out.val =
                    QMul(QMul(QAdd(SwimmingSpeed(training), <<11, 10>>), Q(2)),
                         training.weight)
              /\ training = ExampleSwimming => last.out.val = Q(336)
              /\ \A a \in PosValues(1) :
                    get_spent_calories(WithAction(training, a)) = last.out
        /\ last.op = "get_distance" =>
              \A a \in PosValues(1) \ {training.action} :
                  get_distance(WithAction(training, a)) # last.out.val

C7_Witness ==
    /\ training = ExampleSwimming
    /\ Returned("get_spent_calories")
    /\ last.out.val = Q(336)
    /\ get_spent_calories(WithAction(training, Q(0))) = last.out

(***************************************************************************)
(* C8.  get_distance is action * L / 1000 with L = 0.65 for Running and    *)
(* Walking and L = 1.38 for Swimming, and the InfoMessage's distance is    *)
(* that value; for Swimming the InfoMessage's speed comes from the pool    *)
(* length and laps instead, so it need not be distance / duration.         *)
(***************************************************************************)
StepLength(cls) == IF cls = "Swimming" THEN <<138, 100>> ELSE <<65, 100>>

DistanceOf(self) == QDiv(QMul(self.action, StepLength(self.cls)), Q(1000))

C8_Distance ==
    Built =>
        /\ last.op = "get_distance" =>
              Returned("get_distance") /\ last.out.val = DistanceOf(training)
        /\ Returned("show_training_info") =>
              /\ last.out.val.distance = DistanceOf(training)
              /\ training.cls = "Swimming" =>
                    last.out.val.speed = SwimmingSpeed(training)
              /\ training.cls # "Swimming" =>
                    last.out.val.speed =
                        QDiv(DistanceOf(training), training.duration)

\* a Swimming summary whose speed is not its distance over its duration
C8_Witness ==
    /\ Built
    /\ training.cls = "Swimming"
    /\ Returned("show_training_info")
    /\ last.out.val.distance = DistanceOf(training)
    /\ last.out.val.distance = <<621, 625>>
    /\ last.out.val.speed # QDiv(last.out.val.distance, training.duration)

(***************************************************************************)
(* C9.  The methods are read-only and show_training_info is idempotent:    *)
(* no call of get_distance, get_mean_speed, get_spent_calories,            *)
(* show_training_info or main changes the workout, and the InfoMessage a   *)
(* call returns is the one any later call on the workout returns, field    *)
(* for field, with training_type the class's name and duration the         *)
(* workout's duration.                                                     *)
(***************************************************************************)
MethodOps ==
    {"get_distance", "get_mean_speed", "get_spent_calories",
     "show_training_info", "main"}

DisplayName(cls) ==
    CASE cls = "Running" -> "Running"
      [] cls = "SportsWalking" -> "SportsWalking"
      [] cls = "Swimming" -> "Swimming"

C9_SummaryIdempotent ==
    [][(last'.op \in MethodOps) =>
          /\ training' = training
          /\ (last'.op = "show_training_info" /\ IsOk(last'.out)) =>
                /\ last'.out = show_training_info(training')
                /\ last'.out.val.training_type = DisplayName(training.cls)
                /\ last'.out.val.duration = training.duration
                /\ last'.out.val.message[1] = DisplayName(training.cls)
                /\ last'.out.val.message[2] = Format3f(training.duration)
          /\ (last.op = "show_training_info" /\ IsOk(last.out)
                /\ last'.op = "show_training_info") =>
                last'.out = last.out]_vars

C9_Witness ==
    /\ ValidFields
    /\ training.cls = "SportsWalking"
    /\ Returned("show_training_info")
    /\ last.out.val.training_type = "SportsWalking"
    /\ last.out.val.duration = <<117, 100>>

(***************************************************************************)
(* C10.  Running calories can be negative for valid inputs: with           *)
(* action >= 0, duration > 0 and weight > 0 they are negative exactly when *)
(* the mean speed is below 20/18 km/h (action = 0 included), zero exactly  *)
(* at 20/18 and positive above; the InfoMessage carries the value          *)
(* unclamped.                                                              *)
(***************************************************************************)
RunningSpeed(self) ==
    QDiv(QDiv(QMul(self.action, <<65, 100>>), Q(1000)), self.duration)

C10_RunningCaloriesSign ==
    (ValidFields /\ training.cls = "Running") =>
        /\ last.op = "get_spent_calories" =>
              /\ Returned("get_spent_calories")
              /\ QNeg(last.out.val) <=> QLess(RunningSpeed(training), <<20, 18>>)
              /\ QIsZero(last.out.val) <=> RunningSpeed(training) = <<10, 9>>
              /\ QPos(last.out.val) <=> QLess(<<20, 18>>, RunningSpeed(training))
        /\ last.op = "show_training_info" =>
              /\ Returned("show_training_info")
              /\ QNeg(last.out.val.calories) <=>
                    QLess(RunningSpeed(training), <<20, 18>>)
              /\ last.out.val.message[5].neg <=>
                    QLess(RunningSpeed(training), <<20, 18>>)
              /\ last.out.val.message[5] = Format3f(last.out.val.calories)

\* a run of no steps: -90 kcal in the summary
C10_Witness ==
    /\ ValidFields
    /\ training.cls = "Running"
    /\ training.action = Q(0)
    /\ training.duration = Q(1)
    /\ training.weight = Q(75)
    /\ Returned("show_training_info")
    /\ last.out.val.calories = Q(-90)
    /\ last.out.val.message[5] = [neg |-> TRUE, int |-> 90, frac |-> 0]

=============================================================================
